---- MODULE Spec2Model ----
(***************************************************************************)
(* A model of the lexkey crate: the order-preserving scalar transforms of  *)
(* LexKey (src/src/lexkey.rs), the composite join and the range boundary   *)
(* keys, and the reusable Encoder (src/src/encoder.rs).                    *)
(*                                                                         *)
(* 64-bit words do not fit TLC's integers, so a u64 is kept as four 16-bit *)
(* limbs, most significant first: <<w3, w2, w1, w0>> stands for            *)
(* w3*2^48 + w2*2^32 + w1*2^16 + w0.  An i64 is kept the same way with a   *)
(* signed top limb (-2^15 .. 2^15-1), so that the tuple denotes the        *)
(* mathematical integer and not its bit pattern.  An f64 is kept as its    *)
(* IEEE-754 fields [sign, exp, frac], frac being the 52-bit fraction as    *)
(* <<4 bits, 16 bits, 16 bits, 16 bits>>.                                  *)
(***************************************************************************)
EXTENDS Integers, Sequences, FiniteSets, TLC

VARIABLES
    x, y,          \* the two scalar operands of a scalar experiment
    kx, ky,        \* keys returned for x and y by the value-returning form
    parts, ext,    \* a prefix part list and a list of further parts
    kc, ke,        \* encode_composite(parts), encode_composite(parts ++ ext)
    kq,            \* encode_composite(ext): some composite key
    kfirst, klast, \* encode_first(parts), encode_last(parts)
    dst, dstRet,   \* a caller's Vec<u8> and the count the last write returned
    buf, bufRet,   \* an Encoder's buffer and the count the last write returned
    seps,          \* ghost: per call, the positions written by the separator push
    done,          \* the calls made so far
    fault,         \* the call that panicked, or "none"
    encState,      \* "live", or "spent" once freeze has consumed the Encoder
    frozen,        \* the Bytes that freeze has returned so far, oldest first
    fresh,         \* the buffer of an Encoder created at the last clear (or
                   \* creation) and given the same writes since
    log            \* the calls made on Encoders and keys, with what they returned

vars == <<x, y, kx, ky, parts, ext, kc, ke, kq, kfirst, klast,
          dst, dstRet, buf, bufRet, seps, done, fault,
          encState, frozen, fresh, log>>

scalarVars == <<x, y, kx, ky>>
compositeVars == <<parts, ext, kc, ke, kq, kfirst, klast>>
encoderVars == <<encState, frozen, fresh, log>>

\* The value of a result no call has produced.
NoValue == "none"

(***************************************************************************)
(* Bytes and byte strings                                                  *)
(***************************************************************************)

SEPARATOR == 0
END_MARKER == 255

\* Ord for Bytes / [u8]: unsigned lexicographic comparison, a proper prefix
\* being less than what extends it.  -1, 0, 1 for Less, Equal, Greater.
RECURSIVE cmp_from(_, _, _)
cmp_from(a, b, i) ==
    IF i > Len(a) /\ i > Len(b) THEN 0
    ELSE IF i > Len(a) THEN -1
    ELSE IF i > Len(b) THEN 1
    ELSE IF a[i] < b[i] THEN -1
    ELSE IF a[i] > b[i] THEN 1
    ELSE cmp_from(a, b, i + 1)

cmp(a, b) == cmp_from(a, b, 1)

BytesLess(a, b) == cmp(a, b) = -1
BytesLessEq(a, b) == cmp(a, b) # 1

\* LexKey::from_bytes
from_bytes(bytes) == bytes

(***************************************************************************)
(* Comparing keys: a LexKey is its bytes                                   *)
(***************************************************************************)

\* #[derive(PartialEq, Eq)] on LexKey { bytes }: the byte slices are equal,
\* same length and the same byte at every index.
LexKey_eq(a, b) == Len(a) = Len(b) /\ \A i \in 1..Len(a) : a[i] = b[i]

\* Ord::cmp comparing the lengths before the bytes.
LexKey_cmp_shortlex(a, b) ==
    IF Len(a) < Len(b) THEN -1
    ELSE IF Len(a) > Len(b) THEN 1
    ELSE cmp(a, b)

\* impl Ord for LexKey: self.bytes.cmp(&other.bytes)
LexKey_cmp(a, b) == cmp(a, b)

\* impl PartialOrd for LexKey: Some(self.cmp(other))
LexKey_partial_cmp(a, b) == [some |-> TRUE, ordering |-> LexKey_cmp(a, b)]

\* a < b, PartialOrd's provided method: partial_cmp is Some(Less).
LexKey_lt(a, b) ==
    LET r == LexKey_partial_cmp(a, b) IN r.some /\ r.ordering = -1

(***************************************************************************)
(* 64-bit words as four 16-bit limbs                                       *)
(***************************************************************************)

LimbBase == 2^16

\* Bitwise operations on naturals, one bit at a time.
RECURSIVE BitXor(_, _)
BitXor(a, b) ==
    IF a = 0 /\ b = 0 THEN 0
    ELSE (((a % 2) + (b % 2)) % 2) + 2 * BitXor(a \div 2, b \div 2)

RECURSIVE BitAnd(_, _)
BitAnd(a, b) ==
    IF a = 0 \/ b = 0 THEN 0
    ELSE ((a % 2) * (b % 2)) + 2 * BitAnd(a \div 2, b \div 2)

RECURSIVE BitOr(_, _)
BitOr(a, b) ==
    IF a = 0 /\ b = 0 THEN 0
    ELSE (IF a % 2 = 1 \/ b % 2 = 1 THEN 1 ELSE 0) + 2 * BitOr(a \div 2, b \div 2)

Xor64(u, v) == [i \in 1..4 |-> BitXor(u[i], v[i])]
And64(u, v) == [i \in 1..4 |-> BitAnd(u[i], v[i])]
Or64(u, v) == [i \in 1..4 |-> BitOr(u[i], v[i])]
\* !u: every bit complemented.
Not64(u) == [i \in 1..4 |-> BitXor(u[i], LimbBase - 1)]

\* 0x8000_0000_0000_0000
SIGN_BIT == <<2^15, 0, 0, 0>>

\* u64::to_be_bytes: the eight bytes, most significant first.
to_be_bytes(u) ==
    <<u[1] \div 256, u[1] % 256, u[2] \div 256, u[2] % 256,
      u[3] \div 256, u[3] % 256, u[4] \div 256, u[4] % 256>>

(***************************************************************************)
(* Signed integers                                                         *)
(***************************************************************************)

\* `n as u64`: the two's-complement bit pattern of n.
as_u64(n) == <<IF n[1] < 0 THEN n[1] + LimbBase ELSE n[1], n[2], n[3], n[4]>>

\* a < b on i64: the order of the integers the limb tuples denote.
RECURSIVE LimbsLess(_, _, _)
LimbsLess(a, b, i) ==
    IF i > Len(a) THEN FALSE
    ELSE IF a[i] # b[i] THEN a[i] < b[i]
    ELSE LimbsLess(a, b, i + 1)

I64Less(a, b) == LimbsLess(a, b, 1)

\* encode_i64 without the flip of the sign bit.
encode_i64_noflip(n) == to_be_bytes(as_u64(n))

\* encode_i64 with every bit complemented instead of the sign bit alone.
encode_i64_complement(n) ==
    LET u == Not64(as_u64(n))
    IN to_be_bytes(u)

\* LexKey::encode_i64
encode_i64(n) ==
    LET u == Xor64(as_u64(n), SIGN_BIT)
    IN to_be_bytes(u)

I64_MIN == <<-(2^15), 0, 0, 0>>
I64_MAX == <<2^15 - 1, LimbBase - 1, LimbBase - 1, LimbBase - 1>>
I64_ZERO == <<0, 0, 0, 0>>

\* Operands: the extremes of each limb and their neighbours.
TopLimbs == {-(2^15), -1, 0, 1, 2^15 - 1}
MidLimbs == {0, LimbBase - 1}
LowLimbs == {0, 1, LimbBase - 1}
I64Samples ==
    {<<h, m, m, l>> : h \in TopLimbs, m \in MidLimbs, l \in LowLimbs}
    \cup {<<h, 0, LimbBase - 1, l>> : h \in TopLimbs, l \in LowLimbs}

(***************************************************************************)
(* Unsigned integers                                                       *)
(***************************************************************************)

\* a < b on u64: the limbs are unsigned, so the tuples compare as the numbers.
U64Less(a, b) == LimbsLess(a, b, 1)

U64_MIN == <<0, 0, 0, 0>>
U64_MAX == <<LimbBase - 1, LimbBase - 1, LimbBase - 1, LimbBase - 1>>

\* encode_u64 with the bytes least significant first.
encode_u64_le(n) ==
    LET b == to_be_bytes(n) IN [i \in 1..8 |-> b[9 - i]]

\* LexKey::encode_u64
encode_u64(n) == to_be_bytes(n)

\* Operands: zero, one, a value above one byte, the top bit and all ones in
\* the end limbs, with the middle limbs all zeros or all ones.
U64EndLimbs == {0, 1, 2^8, 2^15, LimbBase - 1}
U64Samples == {<<h, m, m, l>> : h \in U64EndLimbs, m \in MidLimbs, l \in U64EndLimbs}

(***************************************************************************)
(* Floats                                                                  *)
(***************************************************************************)

ZeroFrac == <<0, 0, 0, 0>>
MaxExp == 2^11 - 1

\* The quiet NaNs only: the top bit of the fraction set.
is_nan_quiet_only(v) == v.exp = MaxExp /\ v.frac[1] >= 8

\* f64::is_nan: exponent all ones and a non-zero fraction, either sign.
is_nan(v) == v.exp = MaxExp /\ v.frac # ZeroFrac

\* f64::to_bits: sign (1 bit), exponent (11 bits), fraction (52 bits).
to_bits(v) ==
    <<v.sign * 2^15 + v.exp * 16 + v.frac[1], v.frac[2], v.frac[3], v.frac[4]>>

\* bits >> 63 (logical): the sign bit as a number.
shr63(b) == b[1] \div 2^15

\* The shift done on the unsigned pattern: the sign bit lands in bit 0 and
\* zeros are shifted in.
sar63_logical(b) == <<0, 0, 0, b[1] \div 2^15>>

\* ((b as i64) >> 63) as u64 (arithmetic): the sign bit copied to all 64 bits.
sar63(b) ==
    IF b[1] \div 2^15 = 1
    THEN <<LimbBase - 1, LimbBase - 1, LimbBase - 1, LimbBase - 1>>
    ELSE <<0, 0, 0, 0>>

\* a < b on f64 (IEEE-754, neither a NaN): the magnitude grows with
\* <<exp, frac>> read as one number, the two zeros are equal, and a negative
\* value is below every non-negative one.
Magnitude(v) == <<v.exp>> \o v.frac
IsZero(v) == v.exp = 0 /\ v.frac = ZeroFrac
F64Less(a, b) ==
    IF IsZero(a) /\ IsZero(b) THEN FALSE
    ELSE IF a.sign = 1 /\ b.sign = 0 THEN TRUE
    ELSE IF a.sign = 0 /\ b.sign = 1 THEN FALSE
    ELSE IF a.sign = 0 THEN LimbsLess(Magnitude(a), Magnitude(b), 1)
    ELSE LimbsLess(Magnitude(b), Magnitude(a), 1)

\* The outcome of a call that may panic: ok = FALSE is the panic, which
\* returns nothing.
Panicked == [ok |-> FALSE]

\* The transform with the negative branch taken for no value.
f64_transform_xor_only(bits) == Xor64(bits, SIGN_BIT)

\* The transform testing the value (v < 0.0) where the code tests the sign
\* bit: negative zero takes the non-negative branch.
f64_transform_by_value(bits) ==
    IF shr63(bits) = 1 /\ bits # SIGN_BIT THEN Not64(bits) ELSE Xor64(bits, SIGN_BIT)

\* lexkey.rs: if bits >> 63 == 1 { !bits } else { bits ^ SIGN_BIT }
f64_transform(bits) ==
    IF shr63(bits) = 1 THEN Not64(bits) ELSE Xor64(bits, SIGN_BIT)

\* LexKey::encode_f64 rejecting quiet NaNs only.
encode_f64_quiet_only(v) ==
    IF is_nan_quiet_only(v) THEN Panicked
    ELSE [ok |-> TRUE, bytes |-> to_be_bytes(f64_transform(to_bits(v)))]

\* LexKey::encode_f64
encode_f64(v) ==
    IF is_nan(v) THEN Panicked
    ELSE [ok |-> TRUE, bytes |-> to_be_bytes(f64_transform(to_bits(v)))]

\* encode_f64_into testing for NaN after the eight bytes are in dst.
encode_f64_into_late_check(d, v) ==
    LET enc == f64_transform(to_bits(v))
        b == to_be_bytes(enc)
    IN IF is_nan(v) THEN [ok |-> FALSE, dst |-> d \o b]
       ELSE [ok |-> TRUE, dst |-> d \o b, ret |-> 8]

\* LexKey::encode_f64_into(dst, v): reserve changes no contents; a panic
\* leaves dst as the call found it.
encode_f64_into(d, v) ==
    IF is_nan(v) THEN [ok |-> FALSE, dst |-> d]
    ELSE LET enc == f64_transform(to_bits(v))
             b == to_be_bytes(enc)
         IN [ok |-> TRUE, dst |-> d \o b, ret |-> 8]

\* BufMut::put_u64: the eight bytes, big-endian, appended.
put_u64(b, u) == b \o to_be_bytes(u)

\* Encoder::encode_f64_into
Encoder_encode_f64_into(b, v) ==
    IF is_nan(v) THEN [ok |-> FALSE, buf |-> b]
    ELSE LET bits == to_bits(v)
             mask == sar63(bits)
             neg == Not64(bits)
             pos == Xor64(bits, SIGN_BIT)
             enc == Or64(And64(neg, mask), And64(pos, Not64(mask)))
         IN [ok |-> TRUE, buf |-> put_u64(b, enc), ret |-> 8]

\* -0.0 and +0.0
NEG_ZERO == [sign |-> 1, exp |-> 0, frac |-> ZeroFrac]
POS_ZERO == [sign |-> 0, exp |-> 0, frac |-> ZeroFrac]

\* Operands: both signs, the smallest and largest exponents and fractions
\* (zeros, subnormals, normals, infinities, signalling and quiet NaNs).
ExpSamples == {0, 1, 1023, MaxExp - 1, MaxExp}
FracSamples == {ZeroFrac, <<0, 0, 0, 1>>, <<8, 0, 0, 0>>,
                <<15, LimbBase - 1, LimbBase - 1, LimbBase - 1>>}
F64Samples == [sign : {0, 1}, exp : ExpSamples, frac : FracSamples]

\* What a destination may hold before the call.
PriorContents == {<<>>, <<170>>}

(***************************************************************************)
(* Integers written into a caller's Vec<u8> or an Encoder                  *)
(***************************************************************************)

\* encode_u64_into returning the length of dst after the write.
encode_u64_into_total(d, n) ==
    LET b == to_be_bytes(n)
    IN [dst |-> d \o b, ret |-> Len(d \o b)]

\* LexKey::encode_u64_into(dst, n)
encode_u64_into(d, n) ==
    LET b == to_be_bytes(n)
    IN [dst |-> d \o b, ret |-> 8]

\* LexKey::encode_i64_into(dst, n)
encode_i64_into(d, n) ==
    LET u == Xor64(as_u64(n), SIGN_BIT)
        b == to_be_bytes(u)
    IN [dst |-> d \o b, ret |-> 8]

\* Encoder::encode_u64_into putting a separator after what the buffer holds.
Encoder_encode_u64_into_separated(b, n) ==
    [buf |-> put_u64(IF b = <<>> THEN b ELSE Append(b, SEPARATOR), n), ret |-> 8]

\* Encoder::encode_u64_into
Encoder_encode_u64_into(b, n) == [buf |-> put_u64(b, n), ret |-> 8]

\* Encoder::encode_i64_into without the flip of the sign bit.
Encoder_encode_i64_into_noflip(b, n) ==
    LET u == as_u64(n)
    IN [buf |-> put_u64(b, u), ret |-> 8]

\* Encoder::encode_i64_into
Encoder_encode_i64_into(b, n) ==
    LET u == Xor64(as_u64(n), SIGN_BIT)
    IN [buf |-> put_u64(b, u), ret |-> 8]

(***************************************************************************)
(* Booleans, strings and UUIDs                                             *)
(***************************************************************************)

FALSE_BYTE == <<0>>
TRUE_BYTE == <<1>>

\* encode_bool with the two bytes exchanged.
encode_bool_swapped(b) == IF b THEN FALSE_BYTE ELSE TRUE_BYTE

\* LexKey::encode_bool
encode_bool(b) == IF b THEN TRUE_BYTE ELSE FALSE_BYTE

\* LexKey::encode_bool_into(dst, b)
encode_bool_into(d, b) == [dst |-> Append(d, IF b THEN 1 ELSE 0), ret |-> 1]

\* A &str is kept as its characters (Unicode scalar values); str::as_bytes
\* gives their UTF-8 encoding, one to four bytes a character.
utf8(c) ==
    IF c < 2^7 THEN <<c>>
    ELSE IF c < 2^11 THEN <<192 + (c \div 2^6), 128 + (c % 2^6)>>
    ELSE IF c < 2^16 THEN <<224 + (c \div 2^12), 128 + ((c \div 2^6) % 2^6), 128 + (c % 2^6)>>
    ELSE <<240 + (c \div 2^18), 128 + ((c \div 2^12) % 2^6),
           128 + ((c \div 2^6) % 2^6), 128 + (c % 2^6)>>

RECURSIVE as_bytes(_)
as_bytes(s) == IF s = <<>> THEN <<>> ELSE utf8(Head(s)) \o as_bytes(Tail(s))

\* encode_string with a 0x00 terminator after the bytes.
encode_string_terminated(s) == from_bytes(as_bytes(s) \o <<0>>)

\* LexKey::encode_string
encode_string(s) == from_bytes(as_bytes(s))

\* Encoder::encode_string_into
Encoder_encode_string_into(b, s) ==
    LET bytes == as_bytes(s)
    IN [buf |-> b \o bytes, ret |-> Len(bytes)]

\* A Uuid is kept as its 32 hexadecimal digits in the order of its text
\* form; Uuid::as_bytes gives the 16 bytes, two digits a byte, in that order.
Uuid_as_bytes(u) == [i \in 1..16 |-> (16 * u[2 * i - 1]) + u[2 * i]]

\* LexKey::encode_uuid
encode_uuid(u) == from_bytes(Uuid_as_bytes(u))

\* LexKey::encode_uuid_into(dst, u)
encode_uuid_into(d, u) == [dst |-> d \o Uuid_as_bytes(u), ret |-> 16]

\* Encoder::encode_uuid_into_buf
Encoder_encode_uuid_into_buf(b, u) == [buf |-> b \o Uuid_as_bytes(u), ret |-> 16]

\* Operands: '', 'a', a string with a NUL, and characters of two, three
\* and four UTF-8 bytes (e-acute, the euro sign, an emoji).
StrSamples == {<<>>, <<97>>, <<97, 0, 98>>, <<233>>, <<8364>>, <<128512>>, <<104, 233, 8364>>}

\* Operands: the nil UUID, the all-ones UUID, and
\* 550e8400-e29b-41d4-a716-446655440000.
UuidSamples ==
    {[i \in 1..32 |-> 0], [i \in 1..32 |-> 15],
     <<5, 5, 0, 14, 8, 4, 0, 0, 14, 2, 9, 11, 4, 1, 13, 4,
       10, 7, 1, 6, 4, 4, 6, 6, 5, 5, 4, 4, 0, 0, 0, 0>>}

(***************************************************************************)
(* Composite keys                                                          *)
(***************************************************************************)

\* parts.iter().map(|p| p.len()).sum::<usize>()
RECURSIVE sum_len(_)
sum_len(ps) == IF ps = <<>> THEN 0 ELSE Len(Head(ps)) + sum_len(Tail(ps))

\* encode_len counting a separator after every part.
encode_len_trailing(ps) == sum_len(ps) + Len(ps)

\* encode_len (lib.rs)
encode_len(ps) == sum_len(ps) + (IF Len(ps) > 1 THEN Len(ps) - 1 ELSE 0)

\* A byte vector under construction: its bytes and, as a ghost, the positions
\* that were written by the push of the separator.
EmptyVec == [bytes |-> <<>>, seps |-> {}]
extend_from_slice(v, part) == [v EXCEPT !.bytes = @ \o part]
push_separator(v) ==
    [bytes |-> Append(v.bytes, SEPARATOR), seps |-> v.seps \cup {Len(v.bytes) + 1}]

\* The loop of LexKey::encode_composite with a separator after every part.
RECURSIVE composite_loop_trailing(_, _, _)
composite_loop_trailing(v, ps, i) ==
    IF i >= Len(ps) THEN v
    ELSE composite_loop_trailing(push_separator(extend_from_slice(v, ps[i + 1])), ps, i + 1)

\* for (i, part) in parts.iter().enumerate() of LexKey::encode_composite;
\* i counts from 0 as enumerate() does.
RECURSIVE composite_loop(_, _, _)
composite_loop(v, ps, i) ==
    IF i >= Len(ps) THEN v
    ELSE LET v1 == extend_from_slice(v, ps[i + 1])
             v2 == IF i + 1 < Len(ps) THEN push_separator(v1) ELSE v1
         IN composite_loop(v2, ps, i + 1)

\* encode_composite joining the parts from the last to the first.
encode_composite_reversed(ps) ==
    composite_loop(EmptyVec, [i \in 1..Len(ps) |-> ps[Len(ps) + 1 - i]], 0).bytes

\* encode_composite leaving out an empty part together with its separator.
encode_composite_collapsing(ps) ==
    composite_loop(EmptyVec, SelectSeq(ps, LAMBDA part : part # <<>>), 0).bytes

\* LexKey::encode_composite, with its ghost
encode_composite_vec(ps) == composite_loop(EmptyVec, ps, 0)
encode_composite(ps) == encode_composite_vec(ps).bytes

\* for (i, part) in parts.iter().enumerate() of LexKey::encode_composite_into:
\* an empty part is not copied.
RECURSIVE composite_into_loop(_, _, _)
composite_into_loop(v, ps, i) ==
    IF i >= Len(ps) THEN v
    ELSE LET part == ps[i + 1]
             v1 == IF part # <<>> THEN extend_from_slice(v, part) ELSE v
             v2 == IF i + 1 < Len(ps) THEN push_separator(v1) ELSE v1
         IN composite_into_loop(v2, ps, i + 1)

\* encode_composite_into joining the parts to what dst holds with a separator.
encode_composite_into_joined(d, ps) ==
    LET start == Len(d)
        d1 == IF d = <<>> THEN d ELSE Append(d, SEPARATOR)
    IN IF ps = <<>> THEN [dst |-> d, ret |-> 0, seps |-> {}]
       ELSE LET v == composite_into_loop([bytes |-> d1, seps |-> {}], ps, 0)
            IN [dst |-> v.bytes, ret |-> Len(v.bytes) - start, seps |-> v.seps]

\* LexKey::encode_composite_into(dst, parts)
encode_composite_into(d, ps) ==
    LET start == Len(d)
    IN IF ps = <<>> THEN [dst |-> d, ret |-> 0, seps |-> {}]
       ELSE LET v == composite_into_loop([bytes |-> d, seps |-> {}], ps, 0)
            IN [dst |-> v.bytes, ret |-> Len(v.bytes) - start, seps |-> v.seps]

\* BufMut::put_u8(0x00) and written += 1, of Encoder::encode_composite_into_buf
put_separator(v) ==
    [bytes |-> Append(v.bytes, 0),
     seps |-> v.seps \cup {Len(v.bytes) + 1},
     written |-> v.written + 1]

\* The loop of Encoder::encode_composite_into_buf with the separator of an
\* empty part dropped, so that no two separators are adjacent.
RECURSIVE composite_into_buf_loop_collapsing(_, _, _)
composite_into_buf_loop_collapsing(v, ps, i) ==
    IF i >= Len(ps) THEN v
    ELSE LET part == ps[i + 1]
             v1 == IF part # <<>>
                   THEN [v EXCEPT !.bytes = @ \o part, !.written = @ + Len(part)]
                   ELSE v
             v2 == IF i + 1 < Len(ps) /\ part # <<>> THEN put_separator(v1) ELSE v1
         IN composite_into_buf_loop_collapsing(v2, ps, i + 1)

\* for (i, part) in parts.iter().enumerate() of
\* Encoder::encode_composite_into_buf: an empty part is not copied, and
\* `written` counts what is appended.
RECURSIVE composite_into_buf_loop(_, _, _)
composite_into_buf_loop(v, ps, i) ==
    IF i >= Len(ps) THEN v
    ELSE LET part == ps[i + 1]
             v1 == IF part # <<>>
                   THEN [v EXCEPT !.bytes = @ \o part, !.written = @ + Len(part)]
                   ELSE v
             v2 == IF i + 1 < Len(ps) THEN put_separator(v1) ELSE v1
         IN composite_into_buf_loop(v2, ps, i + 1)

\* Encoder::encode_composite_into_buf
Encoder_encode_composite_into_buf(b, ps) ==
    IF ps = <<>> THEN [buf |-> b, ret |-> 0, seps |-> {}]
    ELSE LET v == composite_into_buf_loop([bytes |-> b, seps |-> {}, written |-> 0], ps, 0)
         IN [buf |-> v.bytes, ret |-> v.written, seps |-> v.seps]

\* Encoder::with_capacity: an empty buffer, whatever the hint.
Encoder_with_capacity(cap) == <<>>
\* Encoder::push_byte
push_byte(b, byte) == Append(b, byte)
\* Encoder::freeze returning no bytes.
freeze_empty(b) == <<>>
\* Encoder::freeze: the accumulated bytes, now immutable.
freeze(b) == b

\* Encoder::clear leaving the buffer as it is.
clear_noop(b) == b
\* Encoder::clear keeping the first byte of the buffer.
clear_keep_first(b) == IF b = <<>> THEN b ELSE <<b[1]>>
\* Encoder::clear: BytesMut::clear truncates the buffer to length 0.
clear(b) == SubSeq(b, 1, 0)
\* Encoder::as_slice showing the buffer without its last byte.
as_slice_short(b) == IF b = <<>> THEN b ELSE SubSeq(b, 1, Len(b) - 1)
\* Encoder::as_slice
as_slice(b) == b
\* Encoder::len
len(b) == Len(b)

\* encode_first with the closing push_byte left out.
encode_first_unterminated(ps) ==
    LET enc0 == Encoder_with_capacity(encode_len(ps) + 1)
        enc1 == Encoder_encode_composite_into_buf(enc0, ps).buf
    IN from_bytes(freeze(enc1))

\* encode_first with the smallest non-separator byte appended.
encode_first_one(ps) ==
    LET enc0 == Encoder_with_capacity(encode_len(ps) + 1)
        enc1 == Encoder_encode_composite_into_buf(enc0, ps).buf
        enc2 == push_byte(enc1, 1)
    IN from_bytes(freeze(enc2))

\* LexKey::encode_first
encode_first(ps) ==
    LET enc0 == Encoder_with_capacity(encode_len(ps) + 1)
        enc1 == Encoder_encode_composite_into_buf(enc0, ps).buf
        enc2 == push_byte(enc1, SEPARATOR)
    IN from_bytes(freeze(enc2))

\* encode_last with the separator appended in place of the end marker.
encode_last_separator(ps) ==
    LET enc0 == Encoder_with_capacity(encode_len(ps) + 1)
        enc1 == Encoder_encode_composite_into_buf(enc0, ps).buf
        enc2 == push_byte(enc1, SEPARATOR)
    IN from_bytes(freeze(enc2))

\* LexKey::encode_last
encode_last(ps) ==
    LET enc0 == Encoder_with_capacity(encode_len(ps) + 1)
        enc1 == Encoder_encode_composite_into_buf(enc0, ps).buf
        enc2 == push_byte(enc1, END_MARKER)
    IN from_bytes(freeze(enc2))

\* Bounds of the composite experiments: the parts of the prefix and their
\* length, the length of a further part, and the length of the byte strings
\* probed between two keys.
MaxParts == 2
MaxPartLen == 1
MaxExtLen == 2
MaxProbeLen == 3
\* The length of the keys compared with each other.
MaxKeyLen == 3
\* The calls logged in one run of the Encoder.
MaxOps == 3

\* The separator, an ordinary byte and the end marker.
SampleBytes == {SEPARATOR, 1, END_MARKER}
ByteStrings(n) == UNION {[1..k -> SampleBytes] : k \in 0..n}
PartLists(n) == UNION {[1..k -> ByteStrings(MaxPartLen)] : k \in 0..n}
\* No further part, or one: a further part may hold separators of its own,
\* so one part stands for every list of further parts that joins to its bytes.
ExtLists == {<<>>} \cup {<<s>> : s \in ByteStrings(MaxExtLen)}

InitRest ==
    /\ parts = <<>> /\ ext = <<>>
    /\ kc = NoValue /\ ke = NoValue /\ kq = NoValue /\ kfirst = NoValue /\ klast = NoValue
    /\ dst = <<>> /\ dstRet = NoValue
    /\ buf = <<>> /\ bufRet = NoValue
    /\ seps = [c \in {} |-> {}]
    /\ done = {} /\ fault = "none"
    /\ encState = "live" /\ frozen = <<>> /\ fresh = buf /\ log = <<>>

InitI64 ==
    /\ x \in I64Samples /\ y \in I64Samples
    /\ kx = NoValue /\ ky = NoValue
    /\ InitRest

\* let a = LexKey::encode_i64(x);
EncodeI64X ==
    /\ "encode_i64(x)" \notin done
    /\ kx' = encode_i64(x)
    /\ done' = done \cup {"encode_i64(x)"}
    /\ UNCHANGED <<encoderVars, x, y, ky, compositeVars, dst, dstRet, buf, bufRet, seps, fault>>

\* let b = LexKey::encode_i64(y);
EncodeI64Y ==
    /\ "encode_i64(y)" \notin done
    /\ ky' = encode_i64(y)
    /\ done' = done \cup {"encode_i64(y)"}
    /\ UNCHANGED <<encoderVars, x, y, kx, compositeVars, dst, dstRet, buf, bufRet, seps, fault>>

NextI64 == EncodeI64X \/ EncodeI64Y

SpecI64 == InitI64 /\ [][NextI64]_vars

InitU64 ==
    /\ x \in U64Samples /\ y \in U64Samples
    /\ kx = NoValue /\ ky = NoValue
    /\ InitRest

\* let a = LexKey::encode_u64(x);
EncodeU64X ==
    /\ "encode_u64(x)" \notin done
    /\ kx' = encode_u64(x)
    /\ done' = done \cup {"encode_u64(x)"}
    /\ UNCHANGED <<encoderVars, x, y, ky, compositeVars, dst, dstRet, buf, bufRet, seps, fault>>

\* let b = LexKey::encode_u64(y);
EncodeU64Y ==
    /\ "encode_u64(y)" \notin done
    /\ ky' = encode_u64(y)
    /\ done' = done \cup {"encode_u64(y)"}
    /\ UNCHANGED <<encoderVars, x, y, kx, compositeVars, dst, dstRet, buf, bufRet, seps, fault>>

NextU64 == EncodeU64X \/ EncodeU64Y

SpecU64 == InitU64 /\ [][NextU64]_vars

InitOrd ==
    /\ x \in ByteStrings(MaxKeyLen) /\ y \in ByteStrings(MaxKeyLen)
    /\ kx = from_bytes(x) /\ ky = from_bytes(y)
    /\ InitRest

\* The log with one more call and what it returned.
Logged(op, ret) == Append(log, [op |-> op, ret |-> ret])

\* The program compares the two keys four ways, in this order.
OrdCalls == <<"a == b", "a.cmp(&b)", "a.partial_cmp(&b)", "a < b">>
IsNextOrd(op) == Len(log) < Len(OrdCalls) /\ OrdCalls[Len(log) + 1] = op

\* let e = a == b;
KeyEq ==
    /\ IsNextOrd("a == b")
    /\ log' = Logged("a == b", LexKey_eq(kx, ky))
    /\ UNCHANGED <<scalarVars, compositeVars, dst, dstRet, buf, bufRet, seps, done, fault,
                   encState, frozen, fresh>>

\* let c = a.cmp(&b);
KeyCmp ==
    /\ IsNextOrd("a.cmp(&b)")
    /\ log' = Logged("a.cmp(&b)", LexKey_cmp(kx, ky))
    /\ UNCHANGED <<scalarVars, compositeVars, dst, dstRet, buf, bufRet, seps, done, fault,
                   encState, frozen, fresh>>

\* let p = a.partial_cmp(&b);
KeyPartialCmp ==
    /\ IsNextOrd("a.partial_cmp(&b)")
    /\ log' = Logged("a.partial_cmp(&b)", LexKey_partial_cmp(kx, ky))
    /\ UNCHANGED <<scalarVars, compositeVars, dst, dstRet, buf, bufRet, seps, done, fault,
                   encState, frozen, fresh>>

\* let l = a < b;
KeyLt ==
    /\ IsNextOrd("a < b")
    /\ log' = Logged("a < b", LexKey_lt(kx, ky))
    /\ UNCHANGED <<scalarVars, compositeVars, dst, dstRet, buf, bufRet, seps, done, fault,
                   encState, frozen, fresh>>

NextOrd == KeyEq \/ KeyCmp \/ KeyPartialCmp \/ KeyLt

SpecOrd == InitOrd /\ [][NextOrd]_vars

\* One scalar of any kind, and a Vec<u8> and an Encoder that may hold bytes.
ScalarOperands ==
    [type : {"u64"}, val : U64Samples] \cup [type : {"i64"}, val : I64Samples]
    \cup [type : {"bool"}, val : BOOLEAN] \cup [type : {"f64"}, val : F64Samples]
    \cup [type : {"uuid"}, val : UuidSamples] \cup [type : {"str"}, val : StrSamples]

InitScalar ==
    /\ x \in ScalarOperands /\ y = NoValue
    /\ kx = NoValue /\ ky = NoValue
    /\ parts = <<>> /\ ext = <<>>
    /\ kc = NoValue /\ ke = NoValue /\ kq = NoValue /\ kfirst = NoValue /\ klast = NoValue
    /\ dst \in PriorContents /\ dstRet = NoValue
    /\ buf \in PriorContents /\ bufRet = NoValue
    /\ seps = [c \in {} |-> {}]
    /\ done = {} /\ fault = "none"
    /\ encState = "live" /\ frozen = <<>> /\ fresh = buf /\ log = <<>>

\* The call c can be made on an operand of type t.
ScalarCall(c, t) == fault = "none" /\ c \notin done /\ x.type = t

\* The value-returning form returned the key k.
KeyReturned(c, k) ==
    /\ kx' = k
    /\ done' = done \cup {c}
    /\ UNCHANGED <<encoderVars, x, y, ky, compositeVars, dst, dstRet, buf, bufRet, seps, fault>>

\* The form writing into the Vec<u8> returned.
VecReturned(c, r) ==
    /\ dst' = r.dst /\ dstRet' = r.ret
    /\ done' = done \cup {c}
    /\ UNCHANGED <<encoderVars, scalarVars, compositeVars, buf, bufRet, seps, fault>>

\* The form writing into the Encoder returned.
EncReturned(c, r) ==
    /\ buf' = r.buf /\ bufRet' = r.ret
    /\ done' = done \cup {c}
    /\ UNCHANGED <<encoderVars, scalarVars, compositeVars, dst, dstRet, seps, fault>>

\* The value-returning form panicked.
CallPanicked(c) ==
    /\ fault' = c
    /\ UNCHANGED <<encoderVars, scalarVars, compositeVars, dst, dstRet, buf, bufRet, seps, done>>

\* LexKey::encode_u64(x)
KeyOfU64 ==
    /\ ScalarCall("encode_u64(x)", "u64")
    /\ KeyReturned("encode_u64(x)", encode_u64(x.val))

\* LexKey::encode_u64_into(&mut dst, x)
VecPutU64 ==
    /\ ScalarCall("encode_u64_into(dst, x)", "u64")
    /\ VecReturned("encode_u64_into(dst, x)", encode_u64_into(dst, x.val))

\* enc.encode_u64_into(x)
EncPutU64 ==
    /\ ScalarCall("enc.encode_u64_into(x)", "u64")
    /\ EncReturned("enc.encode_u64_into(x)", Encoder_encode_u64_into(buf, x.val))

\* LexKey::encode_i64(x)
KeyOfI64 ==
    /\ ScalarCall("encode_i64(x)", "i64")
    /\ KeyReturned("encode_i64(x)", encode_i64(x.val))

\* LexKey::encode_i64_into(&mut dst, x)
VecPutI64 ==
    /\ ScalarCall("encode_i64_into(dst, x)", "i64")
    /\ VecReturned("encode_i64_into(dst, x)", encode_i64_into(dst, x.val))

\* enc.encode_i64_into(x)
EncPutI64 ==
    /\ ScalarCall("enc.encode_i64_into(x)", "i64")
    /\ EncReturned("enc.encode_i64_into(x)", Encoder_encode_i64_into(buf, x.val))

\* LexKey::encode_bool(x)
KeyOfBool ==
    /\ ScalarCall("encode_bool(x)", "bool")
    /\ KeyReturned("encode_bool(x)", encode_bool(x.val))

\* LexKey::encode_bool_into(&mut dst, x)
VecPutBool ==
    /\ ScalarCall("encode_bool_into(dst, x)", "bool")
    /\ VecReturned("encode_bool_into(dst, x)", encode_bool_into(dst, x.val))

\* LexKey::encode_f64(x)
KeyOfF64 ==
    /\ ScalarCall("encode_f64(x)", "f64")
    /\ LET r == encode_f64(x.val)
       IN IF r.ok THEN KeyReturned("encode_f64(x)", r.bytes)
          ELSE CallPanicked("encode_f64(x)")

\* LexKey::encode_f64_into(&mut dst, x)
VecPutF64 ==
    /\ ScalarCall("encode_f64_into(dst, x)", "f64")
    /\ LET r == encode_f64_into(dst, x.val)
       IN IF r.ok THEN VecReturned("encode_f64_into(dst, x)", r)
          ELSE /\ fault' = "encode_f64_into(dst, x)" /\ dst' = r.dst
               /\ UNCHANGED <<encoderVars, scalarVars, compositeVars, dstRet, buf, bufRet,
                              seps, done>>

\* enc.encode_f64_into(x)
EncPutF64 ==
    /\ ScalarCall("enc.encode_f64_into(x)", "f64")
    /\ LET r == Encoder_encode_f64_into(buf, x.val)
       IN IF r.ok THEN EncReturned("enc.encode_f64_into(x)", r)
          ELSE /\ fault' = "enc.encode_f64_into(x)" /\ buf' = r.buf
               /\ UNCHANGED <<encoderVars, scalarVars, compositeVars, dst, dstRet, bufRet,
                              seps, done>>

\* LexKey::encode_uuid(&x)
KeyOfUuid ==
    /\ ScalarCall("encode_uuid(x)", "uuid")
    /\ KeyReturned("encode_uuid(x)", encode_uuid(x.val))

\* LexKey::encode_uuid_into(&mut dst, &x)
VecPutUuid ==
    /\ ScalarCall("encode_uuid_into(dst, x)", "uuid")
    /\ VecReturned("encode_uuid_into(dst, x)", encode_uuid_into(dst, x.val))

\* enc.encode_uuid_into_buf(&x)
EncPutUuid ==
    /\ ScalarCall("enc.encode_uuid_into_buf(x)", "uuid")
    /\ EncReturned("enc.encode_uuid_into_buf(x)", Encoder_encode_uuid_into_buf(buf, x.val))

\* LexKey::encode_string(x)
KeyOfString ==
    /\ ScalarCall("encode_string(x)", "str")
    /\ KeyReturned("encode_string(x)", encode_string(x.val))

\* enc.encode_string_into(x)
EncPutString ==
    /\ ScalarCall("enc.encode_string_into(x)", "str")
    /\ EncReturned("enc.encode_string_into(x)", Encoder_encode_string_into(buf, x.val))

NextScalar ==
    \/ KeyOfU64 \/ VecPutU64 \/ EncPutU64
    \/ KeyOfI64 \/ VecPutI64 \/ EncPutI64
    \/ KeyOfBool \/ VecPutBool
    \/ KeyOfF64 \/ VecPutF64 \/ EncPutF64
    \/ KeyOfUuid \/ VecPutUuid \/ EncPutUuid
    \/ KeyOfString \/ EncPutString

SpecScalar == InitScalar /\ [][NextScalar]_vars

InitF64 ==
    /\ x \in F64Samples /\ y \in F64Samples
    /\ kx = NoValue /\ ky = NoValue
    /\ parts = <<>> /\ ext = <<>>
    /\ kc = NoValue /\ ke = NoValue /\ kq = NoValue /\ kfirst = NoValue /\ klast = NoValue
    /\ dst \in PriorContents /\ dstRet = NoValue
    /\ buf = dst /\ bufRet = NoValue
    /\ seps = [c \in {} |-> {}]
    /\ done = {} /\ fault = "none"
    /\ encState = "live" /\ frozen = <<>> /\ fresh = buf /\ log = <<>>

\* let a = LexKey::encode_f64(x);
EncodeF64X ==
    /\ fault = "none" /\ "encode_f64(x)" \notin done
    /\ LET r == encode_f64(x)
       IN IF r.ok
          THEN /\ kx' = r.bytes
               /\ done' = done \cup {"encode_f64(x)"}
               /\ UNCHANGED fault
          ELSE /\ fault' = "encode_f64(x)"
               /\ UNCHANGED <<kx, done>>
    /\ UNCHANGED <<encoderVars, x, y, ky, compositeVars, dst, dstRet, buf, bufRet, seps>>

\* let b = LexKey::encode_f64(y);
EncodeF64Y ==
    /\ fault = "none" /\ "encode_f64(y)" \notin done
    /\ LET r == encode_f64(y)
       IN IF r.ok
          THEN /\ ky' = r.bytes
               /\ done' = done \cup {"encode_f64(y)"}
               /\ UNCHANGED fault
          ELSE /\ fault' = "encode_f64(y)"
               /\ UNCHANGED <<ky, done>>
    /\ UNCHANGED <<encoderVars, x, y, kx, compositeVars, dst, dstRet, buf, bufRet, seps>>

\* LexKey::encode_f64_into(&mut dst, x);
EncodeF64Into ==
    /\ fault = "none" /\ "encode_f64_into(dst, x)" \notin done
    /\ LET r == encode_f64_into(dst, x)
       IN IF r.ok
          THEN /\ dst' = r.dst /\ dstRet' = r.ret
               /\ done' = done \cup {"encode_f64_into(dst, x)"}
               /\ UNCHANGED fault
          ELSE /\ fault' = "encode_f64_into(dst, x)"
               /\ dst' = r.dst
               /\ UNCHANGED <<dstRet, done>>
    /\ UNCHANGED <<encoderVars, scalarVars, compositeVars, buf, bufRet, seps>>

\* enc.encode_f64_into(x);
EncoderEncodeF64Into ==
    /\ fault = "none" /\ "enc.encode_f64_into(x)" \notin done
    /\ LET r == Encoder_encode_f64_into(buf, x)
       IN IF r.ok
          THEN /\ buf' = r.buf /\ bufRet' = r.ret
               /\ done' = done \cup {"enc.encode_f64_into(x)"}
               /\ UNCHANGED fault
          ELSE /\ fault' = "enc.encode_f64_into(x)"
               /\ buf' = r.buf
               /\ UNCHANGED <<bufRet, done>>
    /\ UNCHANGED <<encoderVars, scalarVars, compositeVars, dst, dstRet, seps>>

NextF64 == EncodeF64X \/ EncodeF64Y \/ EncodeF64Into \/ EncoderEncodeF64Into

SpecF64 == InitF64 /\ [][NextF64]_vars

InitComposite ==
    /\ parts \in PartLists(MaxParts) /\ ext \in ExtLists
    /\ x = NoValue /\ y = NoValue /\ kx = NoValue /\ ky = NoValue
    /\ kc = NoValue /\ ke = NoValue /\ kq = NoValue
    /\ kfirst = NoValue /\ klast = NoValue
    /\ dst = <<>> /\ dstRet = NoValue
    /\ buf = <<>> /\ bufRet = NoValue
    /\ seps = [c \in {} |-> {}]
    /\ done = {} /\ fault = "none"
    /\ encState = "live" /\ frozen = <<>> /\ fresh = buf /\ log = <<>>

\* The calls of a composite experiment, made in this order.
CompositeCalls ==
    <<"encode_composite(parts)", "encode_composite(parts ++ ext)",
      "encode_composite(ext)", "encode_first(parts)", "encode_last(parts)",
      "encode_composite_into(dst, parts ++ ext)",
      "enc.encode_composite_into_buf(parts ++ ext)">>

\* The call is the next one of the experiment.
IsNext(c) == Cardinality(done) < Len(CompositeCalls) /\ CompositeCalls[Cardinality(done) + 1] = c

\* seps with the ghost of call c recorded.
WithSeps(c, positions) == [d \in DOMAIN seps \cup {c} |-> IF d = c THEN positions ELSE seps[d]]

\* let prefix = LexKey::encode_composite(parts);
EncodeCompositeParts ==
    /\ IsNext("encode_composite(parts)")
    /\ kc' = encode_composite(parts)
    /\ seps' = WithSeps("encode_composite(parts)", encode_composite_vec(parts).seps)
    /\ done' = done \cup {"encode_composite(parts)"}
    /\ UNCHANGED <<encoderVars, scalarVars, parts, ext, ke, kq, kfirst, klast, dst, dstRet, buf, bufRet, fault>>

\* let k = LexKey::encode_composite(parts ++ ext);
EncodeCompositeExtended ==
    /\ IsNext("encode_composite(parts ++ ext)")
    /\ ke' = encode_composite(parts \o ext)
    /\ seps' = WithSeps("encode_composite(parts ++ ext)", encode_composite_vec(parts \o ext).seps)
    /\ done' = done \cup {"encode_composite(parts ++ ext)"}
    /\ UNCHANGED <<encoderVars, scalarVars, parts, ext, kc, kq, kfirst, klast, dst, dstRet, buf, bufRet, fault>>

\* let q = LexKey::encode_composite(ext);
EncodeCompositeOther ==
    /\ IsNext("encode_composite(ext)")
    /\ kq' = encode_composite(ext)
    /\ done' = done \cup {"encode_composite(ext)"}
    /\ UNCHANGED <<encoderVars, scalarVars, parts, ext, kc, ke, kfirst, klast, dst, dstRet, buf, bufRet, seps, fault>>

\* let lower_bound = LexKey::encode_first(parts);
EncodeFirst ==
    /\ IsNext("encode_first(parts)")
    /\ kfirst' = encode_first(parts)
    /\ done' = done \cup {"encode_first(parts)"}
    /\ UNCHANGED <<encoderVars, scalarVars, parts, ext, kc, ke, kq, klast, dst, dstRet, buf, bufRet, seps, fault>>

\* let upper_bound = LexKey::encode_last(parts);
EncodeLast ==
    /\ IsNext("encode_last(parts)")
    /\ klast' = encode_last(parts)
    /\ done' = done \cup {"encode_last(parts)"}
    /\ UNCHANGED <<encoderVars, scalarVars, parts, ext, kc, ke, kq, kfirst, dst, dstRet, buf, bufRet, seps, fault>>

\* LexKey::encode_composite_into(&mut dst, parts ++ ext);
EncodeCompositeInto ==
    /\ IsNext("encode_composite_into(dst, parts ++ ext)")
    /\ LET r == encode_composite_into(dst, parts \o ext)
       IN /\ dst' = r.dst /\ dstRet' = r.ret
          /\ seps' = WithSeps("encode_composite_into(dst, parts ++ ext)", r.seps)
    /\ done' = done \cup {"encode_composite_into(dst, parts ++ ext)"}
    /\ UNCHANGED <<encoderVars, scalarVars, compositeVars, buf, bufRet, fault>>

\* enc.encode_composite_into_buf(parts ++ ext);
EncoderEncodeCompositeIntoBuf ==
    /\ IsNext("enc.encode_composite_into_buf(parts ++ ext)")
    /\ LET r == Encoder_encode_composite_into_buf(buf, parts \o ext)
       IN /\ buf' = r.buf /\ bufRet' = r.ret
          /\ seps' = WithSeps("enc.encode_composite_into_buf(parts ++ ext)", r.seps)
    /\ done' = done \cup {"enc.encode_composite_into_buf(parts ++ ext)"}
    /\ UNCHANGED <<encoderVars, scalarVars, compositeVars, dst, dstRet, fault>>

NextComposite ==
    \/ EncodeCompositeParts
    \/ EncodeCompositeExtended
    \/ EncodeCompositeOther
    \/ EncodeFirst
    \/ EncodeLast
    \/ EncodeCompositeInto
    \/ EncoderEncodeCompositeIntoBuf

SpecComposite == InitComposite /\ [][NextComposite]_vars

\* C1: for all signed 64-bit integers a < b, the 8 bytes of encode_i64(a) are
\* strictly less than the 8 bytes of encode_i64(b) under unsigned
\* lexicographic byte comparison.
C1_I64OrderPreserved ==
    (done = {"encode_i64(x)", "encode_i64(y)"} /\ I64Less(x, y))
        => (Len(kx) = 8 /\ Len(ky) = 8 /\ BytesLess(kx, ky))

\* Both keys computed for a negative x and a non-negative y.
C1_Witness ==
    /\ done = {"encode_i64(x)", "encode_i64(y)"}
    /\ x[1] < 0 /\ y[1] >= 0
    /\ I64Less(x, y)

\* C2: for all non-NaN 64-bit floats a < b in numeric order (infinities,
\* subnormals and both zeros included), the bytes of encode_f64(a) are
\* strictly less than the bytes of encode_f64(b) under unsigned
\* lexicographic byte comparison.
C2_F64OrderPreserved ==
    ({"encode_f64(x)", "encode_f64(y)"} \subseteq done
        /\ ~is_nan(x) /\ ~is_nan(y) /\ F64Less(x, y))
        => (Len(kx) = 8 /\ Len(ky) = 8 /\ BytesLess(kx, ky))

\* Both keys computed for two negative operands, x below y.
C2_Witness ==
    /\ {"encode_f64(x)", "encode_f64(y)"} \subseteq done
    /\ x.sign = 1 /\ y.sign = 1 /\ ~IsZero(y)
    /\ F64Less(x, y)

\* C3: encoding a NaN (any NaN bit pattern, either sign, any payload) panics
\* on every call and returns no value, in LexKey::encode_f64,
\* LexKey::encode_f64_into and Encoder::encode_f64_into.
C3_NaNAlwaysPanics ==
    /\ is_nan(x) =>
        /\ "encode_f64(x)" \notin done /\ kx = NoValue
        /\ "encode_f64_into(dst, x)" \notin done /\ dstRet = NoValue
        /\ "enc.encode_f64_into(x)" \notin done /\ bufRet = NoValue
    /\ is_nan(y) => ("encode_f64(y)" \notin done /\ ky = NoValue)

\* The Encoder form has panicked on a negative signalling NaN after the
\* value-returning form returned for the other operand.
C3_Witness ==
    /\ fault = "enc.encode_f64_into(x)"
    /\ x.exp = MaxExp /\ x.sign = 1 /\ x.frac = <<0, 0, 0, 1>>
    /\ "encode_f64(y)" \in done

(***************************************************************************)
(* Properties of the composite join and the range boundary keys            *)
(***************************************************************************)

Called(c) == c \in done

\* first(parts) <= k < last(parts)
InRange(k) == BytesLessEq(kfirst, k) /\ BytesLess(k, klast)

\* k is compose(ps ++ e) for some non-empty list of further parts e.  A
\* composite of further parts can be any byte string (that of a single
\* part is the part), and the composite ends with the last further part, so
\* the single further parts that are the suffixes of k decide it.
ExtendsParts(k, ps) ==
    \E i \in 1..(Len(k) + 1) : k = encode_composite(ps \o <<SubSeq(k, i, Len(k))>>)

\* k is compose(parts) followed by at least one byte, the first not 0xFF.
ContinuesPrefix(k) ==
    /\ Len(k) > Len(kc)
    /\ SubSeq(k, 1, Len(kc)) = kc
    /\ k[Len(kc) + 1] # END_MARKER

\* Where part i of ps starts in the join, counted from 0: the earlier parts
\* and one separator after each.
PartOffset(ps, i) == sum_len(SubSeq(ps, 1, i - 1)) + (i - 1)

\* The positions of the separators of the join of ps.
SeparatorPositions(ps) ==
    {PartOffset(ps, i) + Len(ps[i]) + 1 : i \in 1..(Len(ps) - 1)}

\* k is the parts of ps in order, a single 0x00 after each but the last.
IsJoinOf(k, ps) ==
    /\ Len(k) = sum_len(ps) + (IF Len(ps) = 0 THEN 0 ELSE Len(ps) - 1)
    /\ \A i \in 1..Len(ps) :
          SubSeq(k, PartOffset(ps, i) + 1, PartOffset(ps, i) + Len(ps[i])) = ps[i]
    /\ \A j \in SeparatorPositions(ps) : k[j] = SEPARATOR

\* C4 as claimed: for any prefix part list p, the empty list included, and
\* any non-empty list of extension parts,
\* first(p) <= compose(p ++ ext) < last(p).
C4_AnyPrefixBracketed ==
    (Called("encode_last(parts)") /\ ext # <<>>)
        => (BytesLessEq(kfirst, ke) /\ BytesLess(ke, klast))

\* C4 (amended): for any non-empty prefix part list p and any non-empty
\* list of extension parts, first(p) <= compose(p ++ ext) < last(p).
C4_NonEmptyPrefixBracketed ==
    (Called("encode_last(parts)") /\ parts # <<>> /\ ext # <<>>)
        => (BytesLessEq(kfirst, ke) /\ BytesLess(ke, klast))

\* A prefix that starts with an empty part, extended by a part that starts
\* with the end marker.
C4_Witness ==
    /\ Called("encode_last(parts)")
    /\ Len(parts) = 2 /\ parts[1] = <<>> /\ parts[2] # <<>>
    /\ ext # <<>> /\ ext[1] # <<>> /\ ext[1][1] = END_MARKER

\* C5 as claimed: a composite key k satisfies first(parts) <= k < last(parts)
\* if and only if k = compose(parts ++ ext) for some non-empty list of
\* further parts.
C5_RangeIsExactlyExtensions ==
    Called("encode_last(parts)")
        => \A k \in {ke, kq} : InRange(k) <=> ExtendsParts(k, parts)

\* C5 (amended): a key k satisfies first(parts) <= k < last(parts) if and
\* only if its bytes are compose(parts) followed by at least one byte, the
\* first of which is not 0xFF; for a non-empty parts that holds of every
\* compose(parts ++ ext) with ext non-empty, and not only of those.
C5_RangeIsBytePrefixRange ==
    Called("encode_last(parts)")
        => \A k \in {ke, kq} :
              /\ InRange(k) <=> ContinuesPrefix(k)
              /\ (parts # <<>> /\ ExtendsParts(k, parts)) => InRange(k)

\* A composite key in the range that does not extend parts as a part
\* sequence: its first part only starts with the bytes of parts.
C5_Witness ==
    /\ Called("encode_last(parts)")
    /\ Len(parts) = 1 /\ parts[1] # <<>>
    /\ Len(ext) = 1 /\ Len(ext[1]) > Len(parts[1])
    /\ InRange(kq) /\ ~ExtendsParts(kq, parts)

\* C6: encode_composite(parts) is the parts in order with exactly one 0x00
\* between each adjacent pair and none before the first or after the last;
\* zero parts give the empty key and one part gives that part unchanged.
C6_CompositeIsJoin ==
    /\ Called("encode_composite(parts)") =>
          /\ IsJoinOf(kc, parts)
          /\ parts = <<>> => kc = <<>>
          /\ Len(parts) = 1 => kc = parts[1]
    /\ Called("encode_composite(parts ++ ext)") => IsJoinOf(ke, parts \o ext)
    /\ Called("encode_composite(ext)") =>
          /\ IsJoinOf(kq, ext)
          /\ ext = <<>> => kq = <<>>
          /\ Len(ext) = 1 => kq = ext[1]

\* Three non-empty parts joined, the last one ending with a 0x00 of its own.
C6_Witness ==
    /\ Called("encode_composite(parts ++ ext)")
    /\ Len(parts \o ext) = 3
    /\ \A i \in 1..3 : (parts \o ext)[i] # <<>>
    /\ ext[1][Len(ext[1])] = SEPARATOR
    /\ Len(ke) = sum_len(parts \o ext) + 2

C8_NoDoubleSeparators ==
    Called("enc.encode_composite_into_buf(parts ++ ext)")
        => \A j \in seps["enc.encode_composite_into_buf(parts ++ ext)"] :
              (j + 1) \notin seps["enc.encode_composite_into_buf(parts ++ ext)"]

\* C9: for every part list, the empty list included, encode_first(parts) is
\* encode_composite(parts) followed by the single byte 0x00 and
\* encode_last(parts) is encode_composite(parts) followed by the single
\* byte 0xFF.
C9_FirstLastAppendOneByte ==
    /\ Called("encode_first(parts)") => kfirst = kc \o <<SEPARATOR>>
    /\ Called("encode_last(parts)") => klast = kc \o <<END_MARKER>>

\* Both boundary keys built for a prefix with an empty part in the middle of
\* the join.
C9_Witness ==
    /\ Called("encode_last(parts)")
    /\ Len(parts) = 2 /\ parts[1] = <<>> /\ parts[2] # <<>>
    /\ Len(kfirst) = Len(kc) + 1 /\ Len(klast) = Len(kc) + 1

\* compose(parts) < first(parts) with no byte string strictly between them,
\* for every compose(parts) short enough for ByteStrings(MaxProbeLen + 1) to
\* hold every candidate up to one byte longer than first(parts).
FirstIsSuccessor ==
    Called("encode_first(parts)") =>
        /\ BytesLess(kc, kfirst)
        /\ Len(kc) < MaxProbeLen =>
              \A s \in ByteStrings(MaxProbeLen + 1) :
                  ~(BytesLess(kc, s) /\ BytesLess(s, kfirst))

\* C10 as claimed: first(parts) sorts immediately after compose(parts), and
\* first(parts) is less than or equal to every composite key that extends
\* parts with additional parts.
C10_FirstBelowEveryExtension ==
    /\ FirstIsSuccessor
    /\ (Called("encode_first(parts)") /\ ext # <<>>) => BytesLessEq(kfirst, ke)

\* C10 (amended): first(parts) sorts immediately after compose(parts), and
\* first(parts) is less than or equal to every composite key that extends
\* parts with additional parts, provided parts is non-empty or the
\* additional parts do not join to the empty key.
C10_FirstBelowEveryProperExtension ==
    /\ FirstIsSuccessor
    /\ (Called("encode_first(parts)") /\ ext # <<>> /\ (parts # <<>> \/ kq # <<>>))
          => BytesLessEq(kfirst, ke)

\* The empty prefix extended by a part that starts with a 0x00 of its own.
C10_Witness ==
    /\ Called("encode_first(parts)")
    /\ parts = <<>> /\ Len(ext) = 1 /\ ext[1] # <<>> /\ ext[1][1] = SEPARATOR
    /\ BytesLess(kc, kfirst) /\ BytesLessEq(kfirst, ke)

\* The composite experiment with destinations that may hold bytes: a part
\* list, no further part or one (empty or not), and a Vec<u8> and an Encoder
\* each empty or holding a byte.
InitCompositePrior ==
    /\ parts \in PartLists(MaxParts) /\ ext \in {<<>>, << <<>> >>, << <<1>> >>}
    /\ x = NoValue /\ y = NoValue /\ kx = NoValue /\ ky = NoValue
    /\ kc = NoValue /\ ke = NoValue /\ kq = NoValue
    /\ kfirst = NoValue /\ klast = NoValue
    /\ dst \in PriorContents /\ dstRet = NoValue
    /\ buf \in PriorContents /\ bufRet = NoValue
    /\ seps = [c \in {} |-> {}]
    /\ done = {} /\ fault = "none"
    /\ encState = "live" /\ frozen = <<>> /\ fresh = buf /\ log = <<>>

SpecCompositePrior == InitCompositePrior /\ [][NextComposite]_vars

\* The experiment on two part lists: each is a list of parts over the
\* separator and an ordinary byte, and the keys of the first, of the two
\* joined and of the second are built in this order.
PairLists ==
    UNION {[1..k -> UNION {[1..l -> {SEPARATOR, 1}] : l \in 0..MaxPartLen}] : k \in 0..MaxParts}

InitCompositePair ==
    /\ parts \in PairLists /\ ext \in PairLists
    /\ x = NoValue /\ y = NoValue /\ kx = NoValue /\ ky = NoValue
    /\ kc = NoValue /\ ke = NoValue /\ kq = NoValue
    /\ kfirst = NoValue /\ klast = NoValue
    /\ dst = <<>> /\ dstRet = NoValue
    /\ buf = <<>> /\ bufRet = NoValue
    /\ seps = [c \in {} |-> {}]
    /\ done = {} /\ fault = "none"
    /\ encState = "live" /\ frozen = <<>> /\ fresh = buf /\ log = <<>>

NextCompositePair ==
    \/ EncodeCompositeParts
    \/ EncodeCompositeExtended
    \/ EncodeCompositeOther

SpecCompositePair == InitCompositePair /\ [][NextCompositePair]_vars

(***************************************************************************)
(* The Encoder: one handle at a time, written to, cleared, borrowed from   *)
(* and frozen; a frozen Encoder is gone and a new one may take its place.  *)
(* A second Encoder, fresh, is created at every clear and at every         *)
(* creation and is given the same writes.                                  *)
(***************************************************************************)

\* Capacity hints passed to Encoder::with_capacity.
CapHints == {0, 64}

\* What the writes are given.
EncU64s == {<<1, 2, 3, 4>>}
EncI64s == {<<-1, LimbBase - 1, LimbBase - 1, LimbBase - 2>>}
EncF64s == {[sign |-> 1, exp |-> 1023, frac |-> <<8, 0, 0, 0>>],
            [sign |-> 0, exp |-> MaxExp, frac |-> <<8, 0, 0, 0>>]}
EncStrs == {<<>>, <<8364>>}
EncUuids == {u \in UuidSamples : u[1] = 5}
EncPartLists == {<<>>, << <<1>>, <<>>, <<2>> >>}

\* let mut enc = Encoder::with_capacity(cap);
Init ==
    /\ x = NoValue /\ y = NoValue /\ kx = NoValue /\ ky = NoValue
    /\ parts = <<>> /\ ext = <<>>
    /\ kc = NoValue /\ ke = NoValue /\ kq = NoValue /\ kfirst = NoValue /\ klast = NoValue
    /\ dst = <<>> /\ dstRet = NoValue
    /\ \E cap \in CapHints : buf = Encoder_with_capacity(cap)
    /\ \E cap \in CapHints : fresh = Encoder_with_capacity(cap)
    /\ bufRet = NoValue
    /\ seps = [c \in {} |-> {}]
    /\ done = {} /\ fault = "none"
    /\ encState = "live" /\ frozen = <<>> /\ log = <<>>

\* A method can be called on the Encoder: it has not been moved out by
\* freeze, and no call has panicked.
CanCall == fault = "none" /\ encState = "live" /\ Len(log) < MaxOps

\* A write returned: r is what it made of the Encoder, rf of the fresh one.
Wrote(op, arg, r, rf) ==
    /\ buf' = r.buf /\ fresh' = rf.buf
    /\ log' = Append(log, [op |-> op, arg |-> arg, ret |-> r.ret])
    /\ UNCHANGED <<scalarVars, compositeVars, dst, dstRet, bufRet, seps, done, fault,
                   encState, frozen>>

\* enc.push_byte(b);
PushByte ==
    /\ CanCall
    /\ \E b \in SampleBytes :
          Wrote("push_byte", b, [buf |-> push_byte(buf, b), ret |-> NoValue],
                [buf |-> push_byte(fresh, b)])

\* enc.encode_string_into(s);
WriteString ==
    /\ CanCall
    /\ \E s \in EncStrs :
          Wrote("encode_string_into", s, Encoder_encode_string_into(buf, s),
                Encoder_encode_string_into(fresh, s))

\* enc.encode_u64_into(n);
WriteU64 ==
    /\ CanCall
    /\ \E n \in EncU64s :
          Wrote("encode_u64_into", n, Encoder_encode_u64_into(buf, n),
                Encoder_encode_u64_into(fresh, n))

\* enc.encode_i64_into(n);
WriteI64 ==
    /\ CanCall
    /\ \E n \in EncI64s :
          Wrote("encode_i64_into", n, Encoder_encode_i64_into(buf, n),
                Encoder_encode_i64_into(fresh, n))

\* enc.encode_f64_into(v); a NaN panics before anything is written.
WriteF64 ==
    /\ CanCall
    /\ \E v \in EncF64s :
          LET r == Encoder_encode_f64_into(buf, v)
          IN IF r.ok
             THEN Wrote("encode_f64_into", v, r, Encoder_encode_f64_into(fresh, v))
             ELSE /\ fault' = "enc.encode_f64_into"
                  /\ buf' = r.buf /\ fresh' = Encoder_encode_f64_into(fresh, v).buf
                  /\ UNCHANGED <<scalarVars, compositeVars, dst, dstRet, bufRet, seps,
                                 done, encState, frozen, log>>

\* enc.encode_uuid_into_buf(&u);
WriteUuid ==
    /\ CanCall
    /\ \E u \in EncUuids :
          Wrote("encode_uuid_into_buf", u, Encoder_encode_uuid_into_buf(buf, u),
                Encoder_encode_uuid_into_buf(fresh, u))

\* enc.encode_composite_into_buf(&ps);
WriteComposite ==
    /\ CanCall
    /\ \E ps \in EncPartLists :
          Wrote("encode_composite_into_buf", ps, Encoder_encode_composite_into_buf(buf, ps),
                Encoder_encode_composite_into_buf(fresh, ps))

\* enc.clear(); and a fresh Encoder is created to compare with.
Clear ==
    /\ CanCall
    /\ buf' = clear(buf)
    /\ \E cap \in CapHints : fresh' = Encoder_with_capacity(cap)
    /\ log' = Append(log, [op |-> "clear"])
    /\ UNCHANGED <<scalarVars, compositeVars, dst, dstRet, bufRet, seps, done, fault,
                   encState, frozen>>

\* let s = enc.as_slice();
AsSlice ==
    /\ CanCall
    /\ log' = Append(log, [op |-> "as_slice", ret |-> as_slice(buf)])
    /\ UNCHANGED <<scalarVars, compositeVars, dst, dstRet, buf, bufRet, seps, done, fault,
                   encState, frozen, fresh>>

\* let n = enc.len();
LenOf ==
    /\ CanCall
    /\ log' = Append(log, [op |-> "len", ret |-> len(buf)])
    /\ UNCHANGED <<scalarVars, compositeVars, dst, dstRet, buf, bufRet, seps, done, fault,
                   encState, frozen, fresh>>

\* let bytes = enc.freeze(); the Encoder is moved into the call and its
\* buffer with it.
Freeze ==
    /\ CanCall
    /\ frozen' = Append(frozen, freeze(buf))
    /\ encState' = "spent"
    /\ buf' = <<>> /\ fresh' = <<>>
    /\ log' = Append(log, [op |-> "freeze", ret |-> freeze(buf)])
    /\ UNCHANGED <<scalarVars, compositeVars, dst, dstRet, bufRet, seps, done, fault>>

\* enc = Encoder::with_capacity(cap); after the previous one was frozen.
NewEncoder ==
    /\ fault = "none" /\ encState = "spent" /\ Len(log) < MaxOps
    /\ \E cap \in CapHints :
          buf' = Encoder_with_capacity(cap) /\ fresh' = Encoder_with_capacity(cap)
    /\ encState' = "live"
    /\ UNCHANGED <<scalarVars, compositeVars, dst, dstRet, bufRet, seps, done, fault,
                   frozen, log>>

Next ==
    \/ PushByte \/ WriteString \/ WriteU64 \/ WriteI64 \/ WriteF64 \/ WriteUuid
    \/ WriteComposite \/ Clear \/ AsSlice \/ LenOf \/ Freeze \/ NewEncoder

Spec == Init /\ [][Next]_vars

(***************************************************************************)
(* Claims about the scalar encodings                                       *)
(***************************************************************************)

\* The number a pair of bytes denotes, the first byte the more significant.
BigEndian16(hi, lo) == hi * 2^8 + lo

\* C11: encode_u64(n) is the eight bytes of n, most significant first and
\* otherwise unmodified; a < b as unsigned integers gives encode_u64(a) below
\* encode_u64(b) bytewise; 0 encodes as eight 0x00 and u64::MAX as eight 0xFF.
C11_U64BigEndianOrdered ==
    /\ Called("encode_u64(x)") =>
          /\ Len(kx) = 8
          /\ \A i \in 1..4 : BigEndian16(kx[2 * i - 1], kx[2 * i]) = x[i]
          /\ x = U64_MIN => kx = <<0, 0, 0, 0, 0, 0, 0, 0>>
          /\ x = U64_MAX => kx = <<255, 255, 255, 255, 255, 255, 255, 255>>
    /\ (Called("encode_u64(x)") /\ Called("encode_u64(y)") /\ U64Less(x, y))
          => BytesLess(kx, ky)

\* Both extremes encoded, the smaller as x.
C11_Witness ==
    /\ Called("encode_u64(x)") /\ Called("encode_u64(y)")
    /\ x = U64_MIN /\ y = U64_MAX /\ BytesLess(kx, ky)

\* The big-endian two's-complement bit pattern of an i64.
TwosComplementBytes(n) == to_be_bytes(as_u64(n))

\* C12: encode_i64(n) is the big-endian two's-complement pattern of n with
\* the most significant bit flipped and the other 63 bits unchanged:
\* i64::MIN gives eight 0x00, i64::MAX eight 0xFF, 0 gives 80 00 00 00 00 00 00 00.
C12_I64OnlySignBitFlipped ==
    Called("encode_i64(x)") =>
        /\ Len(kx) = 8
        /\ kx[1] = (TwosComplementBytes(x)[1] + 2^7) % 2^8
        /\ \A i \in 2..8 : kx[i] = TwosComplementBytes(x)[i]
        /\ x = I64_MIN => kx = <<0, 0, 0, 0, 0, 0, 0, 0>>
        /\ x = I64_MAX => kx = <<255, 255, 255, 255, 255, 255, 255, 255>>
        /\ x = I64_ZERO => kx = <<128, 0, 0, 0, 0, 0, 0, 0>>

\* The three named operands are encoded: i64::MIN as x here, and a negative
\* value whose low bits are set.
C12_Witness ==
    /\ Called("encode_i64(x)") /\ Called("encode_i64(y)")
    /\ x = I64_MIN /\ kx = <<0, 0, 0, 0, 0, 0, 0, 0>>
    /\ y = <<-1, LimbBase - 1, LimbBase - 1, LimbBase - 1>>
    /\ ky = <<127, 255, 255, 255, 255, 255, 255, 255>>

\* C13: -0.0 has its sign bit set, so all 64 bits are complemented
\* (7F FF FF FF FF FF FF FF), while +0.0 has only the sign bit flipped
\* (80 00 00 00 00 00 00 00): encode_f64(-0.0) is below encode_f64(0.0)
\* although the two compare equal as numbers.  Every negative value encodes
\* below encode_f64(-0.0) and every positive value above encode_f64(0.0).
C13_ZerosSplitTheSigns ==
    /\ (Called("encode_f64(x)") /\ x = NEG_ZERO) =>
          /\ kx = <<127, 255, 255, 255, 255, 255, 255, 255>>
          /\ \A i \in 1..8 : kx[i] + to_be_bytes(to_bits(x))[i] = 255
    /\ (Called("encode_f64(x)") /\ x = POS_ZERO) =>
          /\ kx = <<128, 0, 0, 0, 0, 0, 0, 0>>
          /\ to_be_bytes(to_bits(x)) = <<0, 0, 0, 0, 0, 0, 0, 0>>
    /\ (Called("encode_f64(x)") /\ Called("encode_f64(y)")) =>
          /\ (x = NEG_ZERO /\ y = POS_ZERO) =>
                BytesLess(kx, ky) /\ ~F64Less(x, y) /\ ~F64Less(y, x)
          /\ (x.sign = 1 /\ ~IsZero(x) /\ y = NEG_ZERO) => BytesLess(kx, ky)
          /\ (x = POS_ZERO /\ y.sign = 0 /\ ~IsZero(y)) => BytesLess(kx, ky)

\* The negative value closest to zero and -0.0 are both encoded, one just
\* below the other.
C13_Witness ==
    /\ Called("encode_f64(x)") /\ Called("encode_f64(y)")
    /\ x = [sign |-> 1, exp |-> 0, frac |-> <<0, 0, 0, 1>>] /\ y = NEG_ZERO
    /\ kx = <<127, 255, 255, 255, 255, 255, 255, 254>>
    /\ ky = <<127, 255, 255, 255, 255, 255, 255, 255>>

\* The calls of the forms that write into a Vec<u8> and into an Encoder,
\* and for each the value-returning form.
VecIntoCalls ==
    {"encode_u64_into(dst, x)", "encode_i64_into(dst, x)", "encode_bool_into(dst, x)",
     "encode_f64_into(dst, x)", "encode_uuid_into(dst, x)"}
EncIntoCalls ==
    {"enc.encode_u64_into(x)", "enc.encode_i64_into(x)", "enc.encode_uuid_into_buf(x)",
     "enc.encode_string_into(x)"}
ValueCall(c) ==
    CASE c \in {"encode_u64_into(dst, x)", "enc.encode_u64_into(x)"} -> "encode_u64(x)"
      [] c \in {"encode_i64_into(dst, x)", "enc.encode_i64_into(x)"} -> "encode_i64(x)"
      [] c = "encode_bool_into(dst, x)" -> "encode_bool(x)"
      [] c = "encode_f64_into(dst, x)" -> "encode_f64(x)"
      [] c \in {"encode_uuid_into(dst, x)", "enc.encode_uuid_into_buf(x)"} -> "encode_uuid(x)"
      [] c = "enc.encode_string_into(x)" -> "encode_string(x)"

\* The call c returns in this step.
Returns(c) == c \notin done /\ c \in done'

\* C16: each buffer-writing scalar form appends to the destination exactly
\* the bytes the value-returning form produces for the same input, leaves
\* the bytes already in the destination unchanged, and returns the number of
\* bytes it appended.  Stated for a run in which the value-returning form
\* was called first, kx being the key it returned.
C16_IntoFormsAppendTheKey ==
    [][/\ \A c \in VecIntoCalls :
            (Returns(c) /\ Called(ValueCall(c))) =>
                dst' = dst \o kx /\ dstRet' = Len(kx)
       /\ \A c \in EncIntoCalls :
            (Returns(c) /\ Called(ValueCall(c))) =>
                buf' = buf \o kx /\ bufRet' = Len(kx)]_vars

\* A negative i64 was written after a byte the Encoder already held.
C16_Witness ==
    /\ Called("encode_i64(x)") /\ Called("enc.encode_i64_into(x)")
    /\ x.val = I64_MIN
    /\ buf = <<170, 0, 0, 0, 0, 0, 0, 0, 0>> /\ bufRet = 8

\* The fixed widths: the kinds of scalar whose encoding has one length.
FixedWidthTypes == {"bool", "u64", "i64", "f64", "uuid"}
Width(t) ==
    CASE t = "bool" -> 1
      [] t \in {"u64", "i64", "f64"} -> 8
      [] t = "uuid" -> 16
ValueCalls ==
    {"encode_bool(x)", "encode_u64(x)", "encode_i64(x)", "encode_f64(x)", "encode_uuid(x)"}
EncFixedCalls ==
    {"enc.encode_u64_into(x)", "enc.encode_i64_into(x)", "enc.encode_f64_into(x)",
     "enc.encode_uuid_into_buf(x)"}

\* C18: a bool encodes to 1 byte, a u64, an i64 and a non-NaN f64 to 8
\* bytes, a UUID to 16 bytes: the key of the value-returning form has that
\* length, and the buffer-writing forms return that count and grow the
\* buffer by it.
C18_FixedWidths ==
    /\ [](\A c \in ValueCalls : Called(c) => Len(kx) = Width(x.type))
    /\ [][\A c \in VecIntoCalls :
             Returns(c) =>
                 dstRet' = Width(x.type) /\ Len(dst') = Len(dst) + Width(x.type)]_vars
    /\ [][\A c \in EncFixedCalls :
             Returns(c) =>
                 bufRet' = Width(x.type) /\ Len(buf') = Len(buf) + Width(x.type)]_vars

\* A u64 was written into a Vec that already held a byte: the call
\* returned 8 and the Vec holds 9 bytes.
C18_Witness ==
    /\ Called("encode_u64(x)") /\ Called("encode_u64_into(dst, x)")
    /\ Len(kx) = 8 /\ dstRet = 8 /\ Len(dst) = 9

\* The lengths of the first n parts, added up by index.
RECURSIVE LengthsUpTo(_, _)
LengthsUpTo(ps, n) == IF n = 0 THEN 0 ELSE LengthsUpTo(ps, n - 1) + Len(ps[n])

\* The sum of the part lengths plus max(n - 1, 0) separators.
JoinedLength(ps) == LengthsUpTo(ps, Len(ps)) + (IF Len(ps) = 0 THEN 0 ELSE Len(ps) - 1)

\* C17: the joined composite of n parts is as long as the sum of the part
\* lengths plus max(n - 1, 0); encode_len(parts), the length of
\* encode_composite(parts) and the counts returned by encode_composite_into
\* and Encoder::encode_composite_into_buf all equal it, 0 for the empty list.
C17_CompositeLengthAgrees ==
    /\ Called("encode_composite(parts)") =>
          Len(kc) = JoinedLength(parts) /\ encode_len(parts) = Len(kc)
    /\ Called("encode_composite(parts ++ ext)") =>
          Len(ke) = JoinedLength(parts \o ext) /\ encode_len(parts \o ext) = Len(ke)
    /\ Called("encode_composite_into(dst, parts ++ ext)") =>
          /\ dstRet = JoinedLength(parts \o ext)
          /\ dstRet = encode_len(parts \o ext)
          /\ parts \o ext = <<>> => dstRet = 0
    /\ Called("enc.encode_composite_into_buf(parts ++ ext)") =>
          /\ bufRet = JoinedLength(parts \o ext)
          /\ bufRet = encode_len(parts \o ext)
          /\ parts \o ext = <<>> => bufRet = 0

\* Three parts, the middle one empty, joined by all three forms: two bytes
\* of parts and two separators.
C17_Witness ==
    /\ Called("encode_composite(parts ++ ext)")
    /\ Called("encode_composite_into(dst, parts ++ ext)")
    /\ Called("enc.encode_composite_into_buf(parts ++ ext)")
    /\ Len(parts \o ext) = 3 /\ (parts \o ext)[2] = <<>>
    /\ Len(ke) = 4 /\ dstRet = 4 /\ bufRet = 4

(***************************************************************************)
(* Claims about comparing keys                                             *)
(***************************************************************************)

\* What the logged call returned.
Returned(op) == \E i \in DOMAIN log : log[i].op = op
RetOf(op) == log[CHOOSE i \in DOMAIN log : log[i].op = op].ret

\* Unsigned lexicographic order stated by position: a and b agree before
\* some index of b, where a has ended or holds a smaller byte.
LexLess(a, b) ==
    \E i \in 1..Len(b) :
        /\ i - 1 <= Len(a)
        /\ \A j \in 1..(i - 1) : a[j] = b[j]
        /\ i = Len(a) + 1 \/ (i <= Len(a) /\ a[i] < b[i])

IsProperPrefix(a, b) == Len(a) < Len(b) /\ SubSeq(b, 1, Len(a)) = a

\* C14: two keys are equal exactly when their byte sequences are equal;
\* a < b exactly when a's bytes are lexicographically below b's, bytes
\* compared unsigned and a proper prefix below what extends it; cmp,
\* partial_cmp and == agree: cmp is Equal exactly when == holds.
C14_KeysCompareAsBytes ==
    /\ Returned("a == b") => (RetOf("a == b") <=> x = y)
    /\ Returned("a.cmp(&b)") =>
          /\ RetOf("a.cmp(&b)") = 0 <=> RetOf("a == b")
          /\ RetOf("a.cmp(&b)") = -1 <=> LexLess(x, y)
          /\ RetOf("a.cmp(&b)") = 1 <=> LexLess(y, x)
    /\ Returned("a.partial_cmp(&b)") =>
          /\ RetOf("a.partial_cmp(&b)").some
          /\ RetOf("a.partial_cmp(&b)").ordering = RetOf("a.cmp(&b)")
    /\ Returned("a < b") =>
          /\ RetOf("a < b") <=> LexLess(x, y)
          /\ RetOf("a < b") <=> RetOf("a.cmp(&b)") = -1
          /\ IsProperPrefix(x, y) => RetOf("a < b")

\* A longer key below a shorter one, compared all four ways.
C14_Witness ==
    /\ Returned("a < b") /\ RetOf("a < b") /\ ~RetOf("a == b")
    /\ RetOf("a.cmp(&b)") = -1
    /\ Len(x) > Len(y) /\ Len(y) > 0

(***************************************************************************)
(* Claims about the Encoder                                                *)
(***************************************************************************)

WriteOps == {"push_byte", "encode_string_into", "encode_u64_into", "encode_i64_into",
             "encode_f64_into", "encode_uuid_into_buf", "encode_composite_into_buf"}

\* The logged call is a write that appended at least one byte.
AppendedBytes(e) ==
    \/ e.op = "push_byte"
    \/ e.op \in WriteOps \ {"push_byte"} /\ e.ret > 0

\* The index in the log of the call that ended the previous Encoder.
LastFreeze ==
    IF \E i \in DOMAIN log : log[i].op = "freeze"
    THEN CHOOSE i \in DOMAIN log :
             log[i].op = "freeze" /\ \A j \in DOMAIN log : log[j].op = "freeze" => j <= i
    ELSE 0

\* The calls made on the Encoder now in use.
OwnCalls == (LastFreeze + 1)..Len(log)

\* The Encoder in use was written to, with bytes appended, and cleared later.
EarlierWritesCleared ==
    \E i, j \in OwnCalls :
        i < j /\ AppendedBytes(log[i]) /\ log[j].op = "clear"

\* C15: an Encoder that received earlier writes and then clear(), followed
\* by writes W, holds the same as_slice() and len() as a fresh Encoder, of
\* any capacity hint, that received W alone.
C15_ClearedEncoderEqualsFresh ==
    (fault = "none" /\ encState = "live" /\ EarlierWritesCleared) =>
        /\ as_slice(buf) = as_slice(fresh)
        /\ len(buf) = len(fresh)

\* Eight bytes were written and cleared, and the euro sign written after:
\* the Encoder holds its three UTF-8 bytes.
C15_Witness ==
    /\ Len(log) = 3 /\ encState = "live" /\ EarlierWritesCleared
    /\ log[1].op = "encode_u64_into" /\ log[3].op = "encode_string_into"
    /\ as_slice(buf) = <<226, 130, 172>> /\ as_slice(fresh) = <<226, 130, 172>>

\* The call just made.
LastCallWas(op) == log # <<>> /\ log[Len(log)].op = op

\* C19: freeze yields bytes equal to the buffer's contents at that moment,
\* which is what as_slice() returned just before; it consumes the Encoder, so
\* nothing is appended, cleared or borrowed through it afterwards; and no
\* later call on any Encoder changes bytes already frozen.
C19_FreezeYieldsContentsForGood ==
    [][/\ (encState = "live" /\ encState' = "spent") =>
             /\ frozen' = Append(frozen, as_slice(buf))
             /\ LastCallWas("as_slice") => frozen'[Len(frozen')] = log[Len(log)].ret
       /\ encState = "spent" =>
             /\ log' = log
             /\ encState' = "live" /\ len(buf') = 0
       /\ \A i \in DOMAIN frozen : i \in DOMAIN frozen' /\ frozen'[i] = frozen[i]]_vars

\* A UUID was written and frozen, and the Encoder that took its place has
\* been written to: the frozen bytes are still the UUID's.
C19_Witness ==
    /\ Len(log) = 3 /\ log[1].op = "encode_uuid_into_buf" /\ log[2].op = "freeze"
    /\ log[3].op \in WriteOps /\ AppendedBytes(log[3])
    /\ encState = "live" /\ len(buf) > 0
    /\ Len(frozen) = 1 /\ frozen[1] = Uuid_as_bytes(log[1].arg)

\* C20: clear() resets the Encoder to empty from any state: right after it
\* len() is 0 and as_slice() is empty whatever was written before, and the
\* Encoder can be written to again, holding then what was written after.
C20_ClearResetsToEmpty ==
    /\ LastCallWas("clear") =>
          /\ len(buf) = 0 /\ as_slice(buf) = <<>>
          /\ encState = "live"
          /\ (fault = "none" /\ Len(log) < MaxOps) => ENABLED PushByte /\ ENABLED WriteUuid
    /\ \A i \in 2..Len(log) :
          log[i - 1].op = "clear" =>
              /\ log[i].op = "len" => log[i].ret = 0
              /\ log[i].op = "as_slice" => log[i].ret = <<>>
              /\ (log[i].op = "push_byte" /\ i = Len(log)) => as_slice(buf) = <<log[i].arg>>

\* Two writes and then clear(): the Encoder is empty.
C20_Witness ==
    /\ Len(log) = 3 /\ LastCallWas("clear")
    /\ AppendedBytes(log[1]) /\ AppendedBytes(log[2])
    /\ len(buf) = 0

(***************************************************************************)
(* Claims about booleans, strings and UUIDs                                *)
(***************************************************************************)

\* C21: encode_bool maps false to the single byte 0x00 and true to the
\* single byte 0x01, so encode_bool(false) is below encode_bool(true);
\* encode_bool_into appends the same byte.
C21_BoolIsOneOrderedByte ==
    /\ [](Called("encode_bool(x)") =>
            /\ ~x.val => kx = <<0>> /\ BytesLess(kx, encode_bool(TRUE))
            /\ x.val => kx = <<1>> /\ BytesLess(encode_bool(FALSE), kx))
    /\ [][Returns("encode_bool_into(dst, x)") =>
             /\ dst' = Append(dst, IF x.val THEN 1 ELSE 0)
             /\ Called("encode_bool(x)") => dst' = dst \o kx]_vars

\* true was encoded both ways, into a Vec that held a byte.
C21_Witness ==
    /\ Called("encode_bool(x)") /\ Called("encode_bool_into(dst, x)")
    /\ x.val /\ kx = <<1>> /\ dst = <<170, 1>>

\* The UTF-8 encodings of the sampled characters, as published: NUL, 'a',
\* 'b', 'h', e-acute (C3 A9), the euro sign (E2 82 AC), U+1F600 (F0 9F 98 80).
KnownUtf8(c) ==
    CASE c = 0 -> <<0>>
      [] c = 97 -> <<97>>
      [] c = 98 -> <<98>>
      [] c = 104 -> <<104>>
      [] c = 233 -> <<195, 169>>
      [] c = 8364 -> <<226, 130, 172>>
      [] c = 128512 -> <<240, 159, 152, 128>>

\* The UTF-8 bytes of a string: those of its characters, one after another.
RECURSIVE Utf8Bytes(_, _)
Utf8Bytes(s, n) == IF n = 0 THEN <<>> ELSE Utf8Bytes(s, n - 1) \o KnownUtf8(s[n])

\* The 16 canonical bytes of a UUID: byte i has the digits 2i-1 and 2i of
\* the text form as its high and low half.
IsCanonicalBytes(k, u) ==
    /\ Len(k) = 16
    /\ \A i \in 1..16 : k[i] \div 16 = u[2 * i - 1] /\ k[i] % 16 = u[2 * i]

\* C22: encode_string(s) is exactly the UTF-8 bytes of s, with no length
\* prefix and no terminator, and the Encoder form appends them and returns
\* their number; encode_uuid(u) is exactly u's 16 canonical bytes, which
\* encode_uuid_into appends; so keys compare as the byte strings of the
\* inputs do.
C22_StringsAndUuidsAreTheirBytes ==
    /\ [](Called("encode_string(x)") =>
            /\ kx = Utf8Bytes(x.val, Len(x.val))
            /\ \A t \in StrSamples :
                  cmp(kx, encode_string(t)) =
                      cmp(Utf8Bytes(x.val, Len(x.val)), Utf8Bytes(t, Len(t))))
    /\ [](Called("encode_uuid(x)") =>
            /\ IsCanonicalBytes(kx, x.val)
            /\ x.val[1] = 5 =>
                  kx = <<85, 14, 132, 0, 226, 155, 65, 212, 167, 22, 68, 102, 85, 68, 0, 0>>
            /\ \A t \in UuidSamples :
                  cmp(kx, encode_uuid(t)) = (IF x.val = t THEN 0
                                            ELSE IF LimbsLess(x.val, t, 1) THEN -1 ELSE 1))
    /\ [][/\ Returns("enc.encode_string_into(x)") =>
                /\ buf' = buf \o Utf8Bytes(x.val, Len(x.val))
                /\ bufRet' = Len(Utf8Bytes(x.val, Len(x.val)))
          /\ Returns("encode_uuid_into(dst, x)") =>
                /\ SubSeq(dst', 1, Len(dst)) = dst
                /\ IsCanonicalBytes(SubSeq(dst', Len(dst) + 1, Len(dst')), x.val)]_vars

\* 'h', e-acute and the euro sign were encoded: six bytes, as a key and
\* appended to an Encoder that held a byte.
C22_Witness ==
    /\ Called("encode_string(x)") /\ Called("enc.encode_string_into(x)")
    /\ x.val = <<104, 233, 8364>>
    /\ kx = <<104, 195, 169, 226, 130, 172>>
    /\ buf = <<170, 104, 195, 169, 226, 130, 172>> /\ bufRet = 6

\* The bytes a logged write stands for: those of the value-returning form
\* for the same argument, the byte itself for push_byte.
BytesOfWrite(e) ==
    CASE e.op = "push_byte" -> <<e.arg>>
      [] e.op = "encode_string_into" -> encode_string(e.arg)
      [] e.op = "encode_u64_into" -> encode_u64(e.arg)
      [] e.op = "encode_i64_into" -> encode_i64(e.arg)
      [] e.op = "encode_f64_into" -> encode_f64(e.arg).bytes
      [] e.op = "encode_uuid_into_buf" -> encode_uuid(e.arg)
      [] e.op = "encode_composite_into_buf" -> encode_composite(e.arg)

\* The count a logged write returned, 1 for push_byte.
CountOfWrite(e) == IF e.op = "push_byte" THEN 1 ELSE e.ret

\* The writes among the first n logged calls that came after the last
\* clear or freeze among them, concatenated in call order, and their counts
\* added up.
RECURSIVE WrittenUpTo(_)
WrittenUpTo(n) ==
    IF n = 0 \/ log[n].op \in {"clear", "freeze"} THEN <<>>
    ELSE IF log[n].op \in WriteOps THEN WrittenUpTo(n - 1) \o BytesOfWrite(log[n])
    ELSE WrittenUpTo(n - 1)

RECURSIVE CountedUpTo(_)
CountedUpTo(n) ==
    IF n = 0 \/ log[n].op \in {"clear", "freeze"} THEN 0
    ELSE IF log[n].op \in WriteOps THEN CountedUpTo(n - 1) + CountOfWrite(log[n])
    ELSE CountedUpTo(n - 1)

\* C23: after any sequence of Encoder operations, as_slice() is the
\* concatenation, in call order, of the bytes of every write issued since
\* the last clear (or since creation), and len() is the sum of the counts
\* those writes returned, 1 for a push_byte: the Encoder puts no byte of its
\* own between successive writes.
C23_ContentsAreTheWritesSinceClear ==
    /\ encState = "live" =>
          /\ as_slice(buf) = WrittenUpTo(Len(log))
          /\ len(buf) = CountedUpTo(Len(log))
    /\ \A i \in DOMAIN log :
          /\ log[i].op = "as_slice" => log[i].ret = WrittenUpTo(i - 1)
          /\ log[i].op = "len" => log[i].ret = CountedUpTo(i - 1)
          /\ log[i].op = "freeze" => log[i].ret = WrittenUpTo(i - 1)

\* The euro sign, a separator and -2 were written one after the other.
C23_Witness ==
    /\ Len(log) = 3 /\ encState = "live"
    /\ log[1].op = "encode_string_into" /\ log[2].op = "push_byte"
    /\ log[3].op = "encode_i64_into"
    /\ as_slice(buf) = <<226, 130, 172, 0, 127, 255, 255, 255, 255, 255, 255, 254>>
    /\ len(buf) = 12

(***************************************************************************)
(* Claims about the two float transforms                                   *)
(***************************************************************************)

\* The last eight bytes of a buffer.
LastEight(b) == SubSeq(b, Len(b) - 7, Len(b))

\* C24: the branch-free mask computation of Encoder::encode_f64_into gives,
\* for every bit pattern that is not a NaN, the same eight bytes as the
\* branching form of LexKey::encode_f64 and LexKey::encode_f64_into.
C24_MaskEqualsBranch ==
    /\ (Called("enc.encode_f64_into(x)") /\ Called("encode_f64(x)")) =>
          LastEight(buf) = kx
    /\ (Called("enc.encode_f64_into(x)") /\ Called("encode_f64_into(dst, x)")) =>
          LastEight(buf) = LastEight(dst) /\ bufRet = dstRet
    /\ (Called("encode_f64(x)") /\ Called("encode_f64_into(dst, x)")) =>
          LastEight(dst) = kx

\* A negative subnormal went through all three forms, and so did +infinity
\* through the value-returning one.
C24_Witness ==
    /\ Called("enc.encode_f64_into(x)") /\ Called("encode_f64(x)")
    /\ Called("encode_f64_into(dst, x)") /\ Called("encode_f64(y)")
    /\ x = [sign |-> 1, exp |-> 0, frac |-> <<0, 0, 0, 1>>]
    /\ y = [sign |-> 0, exp |-> MaxExp, frac |-> ZeroFrac]
    /\ LastEight(buf) = <<127, 255, 255, 255, 255, 255, 255, 254>>
    /\ ky = <<255, 240, 0, 0, 0, 0, 0, 0>>

(***************************************************************************)
(* Claims about the composite join, continued                              *)
(***************************************************************************)

Logs(ops) == Len(log') = Len(log) + 1 /\ log'[Len(log')].op \in ops

\* C26: as_slice() and len() never change the Encoder: its contents and
\* length are the same after the call as before; the call is allowed in any
\* state before freeze, the empty and the just-cleared one included; and a
\* later write appends after the very bytes the borrow showed.
C26_BorrowChangesNothing ==
    /\ []((fault = "none" /\ encState = "live" /\ Len(log) < MaxOps) =>
            ENABLED AsSlice /\ ENABLED LenOf)
    /\ [][/\ Logs({"as_slice", "len"}) =>
                /\ buf' = buf /\ len(buf') = len(buf)
                /\ encState' = encState /\ frozen' = frozen
          /\ Logs({"as_slice"}) => log'[Len(log')].ret = buf
          /\ Logs({"len"}) => log'[Len(log')].ret = Len(buf)
          /\ (LastCallWas("as_slice") /\ Logs(WriteOps)) =>
                /\ Len(buf') >= Len(log[Len(log)].ret)
                /\ SubSeq(buf', 1, Len(log[Len(log)].ret)) = log[Len(log)].ret
                /\ AppendedBytes(log'[Len(log')]) => Len(buf') > Len(log[Len(log)].ret)
          /\ (LastCallWas("len") /\ Logs(WriteOps \ {"push_byte"})) =>
                Len(buf') = log[Len(log)].ret + log'[Len(log')].ret]_vars

\* The Encoder was cleared, borrowed from while empty, and written to.
C26_Witness ==
    /\ Len(log) = 3 /\ log[1].op = "clear" /\ log[2].op = "as_slice"
    /\ log[2].ret = <<>>
    /\ log[3].op = "encode_u64_into" /\ len(buf) = 8

\* C27: a rejected NaN leaves the destination untouched: when
\* LexKey::encode_f64_into or Encoder::encode_f64_into is called with a NaN
\* the panic comes before any byte is written, and the Vec or the Encoder's
\* buffer has the contents and the length it had before the call.
C27_NaNLeavesDestinationUntouched ==
    [][/\ (fault = "none" /\ fault' = "encode_f64_into(dst, x)") =>
             /\ is_nan(x)
             /\ dst' = dst /\ Len(dst') = Len(dst) /\ dstRet' = dstRet
       /\ (fault = "none" /\ fault' = "enc.encode_f64_into(x)") =>
             /\ is_nan(x)
             /\ buf' = buf /\ Len(buf') = Len(buf) /\ bufRet' = bufRet
       /\ (is_nan(x) /\ fault = "none") =>
             /\ Len(dst') = Len(dst) /\ Len(buf') = Len(buf)
             /\ ~Called("encode_f64_into(dst, x)")'
             /\ ~Called("enc.encode_f64_into(x)")']_vars

\* A signalling NaN was given to the Vec form, and the Vec still holds the
\* one byte it held.
C27_Witness ==
    /\ fault = "encode_f64_into(dst, x)"
    /\ x = [sign |-> 1, exp |-> MaxExp, frac |-> <<0, 0, 0, 1>>]
    /\ dst = <<170>> /\ dstRet = NoValue

\* The two part lists have the same number of parts, and the parts at each
\* position have the same length.
SameShape(p, q) ==
    Len(p) = Len(q) /\ \A i \in 1..Len(p) : Len(p[i]) = Len(q[i])

\* p is below q as a tuple of parts: at the first position where they
\* differ the part of p is below the part of q as bytes.
TupleLess(p, q) ==
    \E i \in 1..Len(p) :
        /\ i <= Len(q)
        /\ \A j \in 1..(i - 1) : p[j] = q[j]
        /\ p[i] # q[i] /\ LexLess(p[i], q[i])

\* C28: for two composites with the same number of parts whose parts have
\* equal length position by position, the byte order of the
\* encode_composite keys is the lexicographic order of the part tuples,
\* parts holding 0x00 bytes included.
C28_SameShapeOrderIsTupleOrder ==
    (/\ Called("encode_composite(parts)") /\ Called("encode_composite(ext)")
     /\ SameShape(parts, ext)) =>
        /\ LexKey_lt(kc, kq) <=> TupleLess(parts, ext)
        /\ LexKey_lt(kq, kc) <=> TupleLess(ext, parts)
        /\ LexKey_eq(kc, kq) <=> parts = ext
        /\ LexKey_cmp(kc, kq) = (IF parts = ext THEN 0
                                 ELSE IF TupleLess(parts, ext) THEN -1 ELSE 1)

\* Two lists of two one-byte parts holding 0x00 bytes, ordered by their
\* first parts although the second parts are in the opposite order.
C28_Witness ==
    /\ Called("encode_composite(parts)") /\ Called("encode_composite(ext)")
    /\ parts = << <<SEPARATOR>>, <<1>> >> /\ ext = << <<1>>, <<SEPARATOR>> >>
    /\ kc = <<0, 0, 1>> /\ kq = <<1, 0, 0>>
    /\ LexKey_lt(kc, kq)

\* The list is not empty and none of its parts holds a 0x00 byte.
Separable(p) ==
    p # <<>> /\ \A i \in 1..Len(p) : \A j \in 1..Len(p[i]) : p[i][j] # SEPARATOR

\* The number of 0x00 bytes of a key.
SeparatorCount(k) == Cardinality({i \in 1..Len(k) : k[i] = SEPARATOR})

\* C29: LexKey::encode_composite is injective on non-empty part lists whose
\* parts hold no 0x00 byte: two such lists give equal keys only if they have
\* the same number of parts and equal parts at every position, and the key of
\* such a list holds one 0x00 byte fewer than the list has parts.
C29_CompositeInjectiveWithoutSeparators ==
    /\ (Called("encode_composite(parts)") /\ Separable(parts)) =>
          SeparatorCount(kc) = Len(parts) - 1
    /\ (Called("encode_composite(ext)") /\ Separable(parts) /\ Separable(ext)) =>
          /\ SeparatorCount(kq) = Len(ext) - 1
          /\ SeparatorCount(ke) = Len(parts) + Len(ext) - 1
          /\ LexKey_eq(kc, kq) =>
                Len(parts) = Len(ext) /\ \A i \in 1..Len(parts) : parts[i] = ext[i]
          /\ ~LexKey_eq(ke, kc) /\ ~LexKey_eq(ke, kq)

\* A list ending in an empty part and the list without it: two keys, one
\* with a 0x00 byte and one without.
C29_Witness ==
    /\ Called("encode_composite(parts)") /\ Called("encode_composite(ext)")
    /\ parts = << <<1>>, <<>> >> /\ ext = << <<1>> >>
    /\ kc = <<1, 0>> /\ kq = <<1>>

====
